---- MODULE Spec2Model ----
(***************************************************************************)
(* The HA-USMS integration: the refresh cycle of                           *)
(* HaUsmsDataUpdateCoordinator (coordinator.py), the setup / reload life   *)
(* cycle around it (__init__.py), the hourly statistic series the cycle's  *)
(* rows are imported into, the backfill, recompute and cost services       *)
(* (services.py) and the legacy sensor's entities, history and            *)
(* statistics (sensor.py).                                                 *)
(*                                                                         *)
(* Time is counted in minutes.  A datetime is the number of minutes since  *)
(* the epoch; a timedelta is a number of minutes.  A Python dict is the    *)
(* sequence of its <<key, value>> items in insertion order.                *)
(***************************************************************************)
EXTENDS Integers, Sequences, FiniteSets, TLC

VARIABLES
    phase,              \* "setup": async_setup_entry is running; "ready": it returned True
    refreshes,          \* refresh cycles started on this coordinator object
    cycles,             \* refresh cycles started at all (bounds the exploration)
    now,                \* datetime.now() as read by the latest cycle
    latest_update,      \* account.get_latest_update() as read by the latest cycle
    update_interval,    \* coordinator.update_interval (None until a cycle sets it)
    self_data,          \* coordinator.data (None until a cycle succeeds)
    meter_consumptions, \* coordinator.meter_consumptions: the registered meter numbers
    store,              \* the recorder's hourly statistics, one series per meter
    pc,                 \* position of _async_update_data: "idle" or "meters"
    cur,                \* index of the meter the second loop is at
    data,               \* the local dict `data` of the running cycle
    result,             \* the latest cycle: "none", "running", "returned", "UpdateFailed", "TypeError"
    error,              \* the message of the UpdateFailed raised by the latest cycle
    returned,           \* what the latest cycle returned (None until it returns)
    updated,            \* the results of the meter.update(True) calls the latest cycle made
    fetched,            \* the second loop's latest pass: its meter, whether the
                        \* lookup of line 148 found a sensor, and what
                        \* get_hourly_consumptions answered for today and yesterday
    queried,            \* the meters the latest cycle called statistics_during_period for
    hist,               \* what the source answers get_hourly_consumptions(day) when a
                        \* service call or a cycle that services run beside asks it
    svc,                \* the service call in flight (None when there is none)
    done,               \* the latest service call that ended, and how
    ncalls,             \* service calls made so far (bounds the exploration)
    held,               \* the pass of a cycle that awaits statistics_during_period:
                        \* its meter, its merged readings and the rows the query read
    pending,            \* the recorder's queue: the imports async_import_statistics
                        \* has queued and the recorder thread has not yet run
    cost,               \* the latest call of the cost service: its data and its outcome
    historical,         \* the legacy sensor's get_historical_states call: its
                        \* arguments, its position and what it has collected
    statistic,          \* the legacy sensor's async_calculate_statistic_data call:
                        \* its arguments and what it returned
    walk,               \* the backfill's walk over the representable dates: its
                        \* bounds, its position and how it ended
    units               \* the legacy sensor platform: the account's meters, the
                        \* entities set up and the dicts of extra state attributes

vars == <<phase, refreshes, cycles, now, latest_update, update_interval, self_data,
          meter_consumptions, store, pc, cur, data, result, error, returned,
          updated, fetched, queried, hist, svc, done, ncalls, held, pending,
          cost, historical, statistic, walk, units>>

\* the state of the services and of the cycle's await
svars == <<hist, svc, done, ncalls, held, pending>>

\* the state of the cost service and of the legacy sensor
lvars == <<cost, historical, statistic, walk, units>>

\* the state of the walk over the representable dates and of the legacy platform
xvars == <<walk, units>>

----------------------------------------------------------------------------
(* Program constants *)

MinutesPerHour == 60
MinutesPerDay == 1440
RetryMinutes == 5
EpochStart == 0

(* Bounds of the exploration *)

NumMeters == 2      \* meters of the account
MaxHour == 2        \* a day's answer holds readings for hours 1..k, 1 <= k <= MaxHour
MaxCons == 1        \* a reading's consumption is in 0..MaxCons
MaxDay == 2         \* the clock starts on day 1 and stays within day MaxDay
RefreshNumbers == 1..3  \* the refresh cycles explored, counted from the first
ReadingCounts == 0..2   \* readings the source hands over in one cycle, all meters together

\* An optional value is the set of its values: None is the empty set.
None == {}
Some(x) == {x}
The(opt) == CHOOSE x \in opt : TRUE

\* get_hourly_consumptions either raises USMSConsumptionHistoryNotFoundError
\* or returns a dict
NotFound == [found |-> FALSE, items |-> <<>>]
Found(items) == [found |-> TRUE, items |-> items]
ErrRetrieving == "Error retrieving update"
ErrStale == "since last successful update"

Meters == 1..NumMeters                  \* account.meters, in declaration order
Consumptions == 0..MaxCons

----------------------------------------------------------------------------
(* Python dicts as item sequences *)

Keys(d) == {d[i][1] : i \in 1..Len(d)}

DictPut(d, k, v) ==
    IF k \in Keys(d)
    THEN [i \in 1..Len(d) |-> IF d[i][1] = k THEN <<k, v>> ELSE d[i]]
    ELSE Append(d, <<k, v>>)

RECURSIVE DictUpdate(_, _)
DictUpdate(d, other) ==
    IF other = <<>> THEN d
    ELSE DictUpdate(DictPut(d, Head(other)[1], Head(other)[2]), Tail(other))

RemoveAt(s, i) == SubSeq(s, 1, i - 1) \o SubSeq(s, i + 1, Len(s))

RECURSIVE sorted(_)
sorted(items) ==
    IF items = <<>> THEN <<>>
    ELSE LET i == CHOOSE i \in 1..Len(items) :
                    \A j \in 1..Len(items) : items[i][1] <= items[j][1]
         IN  <<items[i]>> \o sorted(RemoveAt(items, i))

Reverse(s) == [i \in 1..Len(s) |-> s[Len(s) + 1 - i]]

----------------------------------------------------------------------------
(* The Meter Reading Source: what the usms library may answer *)

Advances == {0, MinutesPerDay}          \* how far the clock moves between two cycles
Ages == {0, MinutesPerHour, MinutesPerHour + 1}   \* now - latest_update

\* The dict get_hourly_consumptions(day) returns when the day is published:
\* readings of hours 1..k keyed by the datetime of the hour, which the source
\* may hand over in ascending or in descending order.
DayDict(day, k, v, rev) ==
    LET asc == [h \in 1..k |-> <<day + h * MinutesPerHour, v[h]>>]
    IN  IF rev THEN Reverse(asc) ELSE asc

\* What get_hourly_consumptions(day) may answer when the cycle has been handed
\* `used` readings already: the error, or a dict of at least one reading
Responses(day, used) == {NotFound} \cup UNION {
    {Found(DayDict(day, k, v, rev)) : v \in [1..k -> Consumptions], rev \in BOOLEAN} :
        k \in {n \in 1..MaxHour : used + n \in ReadingCounts}}

----------------------------------------------------------------------------
(* The Statistics Store: a series maps the start of an hour to its row *)

RECURSIVE Ascending(_)
Ascending(S) ==
    IF S = {} THEN <<>>
    ELSE LET x == CHOOSE x \in S : \A y \in S : x <= y
         IN  <<x>> \o Ascending(S \ {x})

\* recorder.statistics.statistics_during_period(hass, start_time, end_time,
\* [statistic_id], "hour", None, types)[statistic_id]: the rows with
\* start_time <= start < end_time (end_time is optional), in ascending order of
\* start.  The empty sequence stands for the missing key of a series without
\* such rows.  A row persisted without a sum has no sum field.
statistics_during_period(series, start_time, end_time) ==
    LET S == {s \in DOMAIN series :
                 /\ start_time <= s
                 /\ \A e \in end_time : s < e}
        starts == Ascending(S)
    IN  [i \in 1..Len(starts) |-> [start |-> starts[i]] @@ series[starts[i]]]

\* recorder.statistics.async_import_statistics(hass, metadata, statistics):
\* every row replaces the persisted row of the same start; a row without a
\* sum persists none.
\* a variant that adds the state of an imported row to the state persisted
\* for the same start
ImportRowAdding(series, r) ==
    LET state == IF r.start \in DOMAIN series
                 THEN series[r.start].state + r.state
                 ELSE r.state
        row   == IF "sum" \in DOMAIN r
                 THEN [state |-> state, sum |-> r.sum]
                 ELSE [state |-> state]
    IN  [s \in DOMAIN series \cup {r.start} |->
            IF s = r.start THEN row ELSE series[s]]

\* one row of an import: it replaces the persisted row of the same start
ImportRow(series, r) ==
    LET row == IF "sum" \in DOMAIN r
               THEN [state |-> r.state, sum |-> r.sum]
               ELSE [state |-> r.state]
    IN  [s \in DOMAIN series \cup {r.start} |->
            IF s = r.start THEN row ELSE series[s]]

RECURSIVE async_import_statistics(_, _)
async_import_statistics(series, statistics) ==
    IF statistics = <<>> THEN series
    ELSE async_import_statistics(ImportRow(series, Head(statistics)),
                                 Tail(statistics))

----------------------------------------------------------------------------
(* _async_update_data, lines 89-196: the rows of one meter *)

today(t) == (t \div MinutesPerDay) * MinutesPerDay
yesterday(t) == today(t) - MinutesPerDay

\* a variant that gives up on the meter when today is not found
hourly_consumptions_today_first(rt, ry) ==
    IF ~rt.found THEN <<>>
    ELSE IF ry.found THEN DictUpdate(rt.items, ry.items) ELSE rt.items

\* lines 101-130: today's answer, then yesterday's merged into it
hourly_consumptions(rt, ry) ==
    LET first == IF rt.found THEN rt.items ELSE <<>>
    IN  IF ry.found THEN DictUpdate(first, ry.items) ELSE first

\* a variant that reads the first row of the query's answer
BaselineTotalFirst(old_statistics) ==
    IF old_statistics # <<>>
    THEN IF "sum" \in DOMAIN old_statistics[1]
         THEN Some(old_statistics[1].sum) ELSE None
    ELSE Some(0)

\* lines 172-176: the sum the new rows continue from, None when the last
\* persisted row has no sum
BaselineTotal(old_statistics) ==
    IF old_statistics # <<>>
    THEN LET last == old_statistics[Len(old_statistics)]
         IN  IF "sum" \in DOMAIN last THEN Some(last.sum) ELSE None
    ELSE Some(0)

\* a variant that builds the row before it adds the consumption
RECURSIVE SumStatisticsLate(_, _)
SumStatisticsLate(items, total) ==
    IF items = <<>> THEN <<>>
    ELSE <<[start |-> Head(items)[1] - MinutesPerHour,
            state |-> Head(items)[2],
            sum   |-> total]>>
         \o SumStatisticsLate(Tail(items), total + Head(items)[2])

\* lines 178-185
RECURSIVE SumStatistics(_, _)
SumStatistics(items, total) ==
    IF items = <<>> THEN <<>>
    ELSE LET t == total + Head(items)[2]
         IN  <<[start |-> Head(items)[1] - MinutesPerHour,
                state |-> Head(items)[2],
                sum   |-> t]>> \o SumStatistics(Tail(items), t)

\* lines 178-185 with the sorted() of line 178
RegisteredStatistics(hourly, total) == SumStatistics(sorted(hourly), total)

\* a variant that gives every row a sum
UnregisteredStatisticsWithSum(hourly) ==
    [i \in 1..Len(hourly) |->
        [start |-> hourly[i][1] - MinutesPerHour, state |-> hourly[i][2],
         sum |-> 0]]

\* lines 188-193
UnregisteredStatistics(hourly) ==
    [i \in 1..Len(hourly) |->
        [start |-> hourly[i][1] - MinutesPerHour, state |-> hourly[i][2]]]

----------------------------------------------------------------------------
(* Life cycle *)

Truthy(d) == d # None /\ DOMAIN The(d) # {}

NewCoordinatorKeepingSensors ==
    /\ refreshes' = 0
    /\ latest_update' = None
    /\ update_interval' = None
    /\ self_data' = None
    /\ meter_consumptions' = meter_consumptions
    /\ pc' = "idle"
    /\ cur' = 0
    /\ data' = <<>>
    /\ result' = "none"
    /\ error' = ""
    /\ returned' = None
    /\ updated' = <<>>
    /\ fetched' = None
    /\ queried' = {}

NewCoordinator ==
    /\ refreshes' = 0
    /\ latest_update' = None
    /\ update_interval' = None
    /\ self_data' = None
    /\ meter_consumptions' = {}
    /\ pc' = "idle"
    /\ cur' = 0
    /\ data' = <<>>
    /\ result' = "none"
    /\ error' = ""
    /\ returned' = None
    /\ updated' = <<>>
    /\ fetched' = None
    /\ queried' = {}

\* nothing has called the cost service or the legacy sensor
LegacyIdle ==
    /\ cost = None
    /\ historical = None
    /\ statistic = None
    /\ walk = None
    /\ units = None

\* the coordinator as constructed, the services not yet called
Constructed ==
    /\ phase = "setup"
    /\ refreshes = 0
    /\ cycles = 0
    /\ now = MinutesPerDay
    /\ latest_update = None
    /\ update_interval = None
    /\ self_data = None
    /\ meter_consumptions = {}
    /\ store = [m \in Meters |-> <<>>]
    /\ pc = "idle"
    /\ cur = 0
    /\ data = <<>>
    /\ result = "none"
    /\ error = ""
    /\ returned = None
    /\ updated = <<>>
    /\ fetched = None
    /\ queried = {}
    /\ hist = <<>>
    /\ svc = None
    /\ done = None
    /\ ncalls = 0
    /\ held = None
    /\ pending = <<>>

Init ==
    /\ Constructed
    /\ LegacyIdle

----------------------------------------------------------------------------
(* _async_update_data *)

\* a variant that goes on to the meters after the one whose update failed
UpdateCallsOfAll(ok) == [i \in Meters |-> ok[i]]

\* the meter.update(True) calls of lines 51-62: the loop stops at the first
\* call that reports failure
UpdateCalls(ok) ==
    IF \A i \in Meters : ok[i] THEN [i \in Meters |-> TRUE]
    ELSE LET f == CHOOSE f \in Meters : ~ok[f] /\ \A i \in 1..(f - 1) : ok[i]
         IN  [i \in 1..f |-> ok[i]]

\* a variant that looks at the first call only
UpdateFailureFirst(calls) == ~calls[1]

\* lines 55-62: some call reported failure
UpdateFailure(calls) == \E i \in 1..Len(calls) : ~calls[i]

\* line 69
NextUpdate(latest) == latest + MinutesPerHour

\* a variant that counts an estimate equal to now as lapsed
LapsedOrDue(next_update, t) == next_update <= t

\* line 74: the estimated next update time has lapsed
Lapsed(next_update, t) == next_update < t

\* a variant without the override of line 76
NewIntervalPlain(next_update, t) == next_update - t

\* lines 71-76
NewInterval(next_update, t) ==
    IF Lapsed(next_update, t) THEN RetryMinutes ELSE next_update - t

\* a variant without the `if self.data` of line 82
RaisesStaleAlways(next_update, t, d) == Lapsed(next_update, t)

\* lines 74-87: the lapsed estimate raises UpdateFailed unless self.data is falsy
RaisesStale(next_update, t, d) == Lapsed(next_update, t) /\ Truthy(d)

\* lines 48-89: forced updates, the next poll time, the staleness check
RefreshBegin ==
    /\ pc = "idle"
    /\ cycles + 1 \in RefreshNumbers
    /\ \/ phase = "setup" /\ result = "none"
       \/ phase = "ready"
    /\ \E d \in Advances, ok \in [Meters -> BOOLEAN], age \in Ages :
         LET t           == now + d
             calls       == UpdateCalls(ok)
             latest      == t - age
             next_update == NextUpdate(latest)
         IN  /\ t <= MaxDay * MinutesPerDay
             /\ now' = t
             /\ cycles' = cycles + 1
             /\ refreshes' = refreshes + 1
             /\ updated' = calls
             /\ fetched' = None
             /\ queried' = {}
             /\ returned' = None
             /\ data' = <<>>
             /\ IF UpdateFailure(calls)
                THEN /\ update_interval' = Some(RetryMinutes)
                     /\ result' = "UpdateFailed"
                     /\ error' = ErrRetrieving
                     /\ latest_update' = None
                     /\ UNCHANGED <<pc, cur>>
                ELSE /\ latest_update' = Some(latest)
                     /\ update_interval' = Some(NewInterval(next_update, t))
                     /\ IF RaisesStale(next_update, t, self_data)
                        THEN /\ result' = "UpdateFailed"
                             /\ error' = ErrStale
                             /\ UNCHANGED <<pc, cur>>
                        ELSE /\ result' = "running"
                             /\ error' = ""
                             /\ pc' = "meters"
                             /\ cur' = 1
    /\ UNCHANGED <<phase, self_data, meter_consumptions, store>>
    /\ UNCHANGED svars
    /\ UNCHANGED lvars

RECURSIVE Readings(_)
Readings(d) == IF d = <<>> THEN 0 ELSE Len(Head(d)) + Readings(Tail(d))

\* a variant without the emptiness test of line 135
QueriesStoreWhenEmpty(hourly, sensor) == sensor

\* lines 135 and 150: the pass reaches statistics_during_period
QueriesStore(hourly, sensor) == hourly # <<>> /\ sensor

SetUnlessEmpty(payload, meter_no, statistics) ==
    IF statistics = <<>> THEN payload ELSE payload @@ (meter_no :> statistics)

\* lines 139 and 196: data[meter.no] = [] and data[meter.no] = statistics
SetData(payload, meter_no, statistics) == payload @@ (meter_no :> statistics)

\* lines 90-196: one pass of the second loop, for meter cur
MeterStep ==
    /\ pc = "meters"
    /\ cur <= NumMeters
    /\ \E rt \in Responses(today(now), Readings(data)) :
       \E ry \in Responses(yesterday(now), Readings(data) + Len(rt.items)) :
            LET meter  == cur
                hourly == hourly_consumptions(rt, ry)
                sensor == meter \in meter_consumptions
                old    == statistics_during_period(store[meter], EpochStart,
                                                   Some(yesterday(now)))
                total  == BaselineTotal(old)
                statistics ==
                    IF hourly = <<>> THEN <<>>
                    ELSE IF sensor THEN RegisteredStatistics(hourly, The(total))
                    ELSE UnregisteredStatistics(hourly)
            IN  /\ fetched' = Some([meter |-> meter, sensor |-> sensor,
                                     today |-> rt, yesterday |-> ry])
                /\ queried' = IF QueriesStore(hourly, sensor)
                              THEN queried \cup {meter} ELSE queried
                /\ IF QueriesStore(hourly, sensor) /\ total = None
                   THEN \* total += consumption on a persisted row without a sum
                        /\ result' = "TypeError"
                        /\ pc' = "idle"
                        /\ data' = <<>>
                        /\ UNCHANGED cur
                   ELSE /\ data' = SetData(data, meter, statistics)
                        /\ cur' = cur + 1
                        /\ UNCHANGED <<result, pc>>
    /\ UNCHANGED <<phase, refreshes, cycles, now, latest_update, update_interval,
                   self_data, meter_consumptions, store, error, returned, updated>>
    /\ UNCHANGED svars
    /\ UNCHANGED lvars

\* the listener of a registered meter's sensor imports the meter's rows
ImportAll(st, payload, registered) ==
    [m \in Meters |-> IF m \in registered
                      THEN async_import_statistics(st[m], payload[m])
                      ELSE st[m]]

\* line 201, and what DataUpdateCoordinator does with the returned dict:
\* it becomes coordinator.data and the listeners are called
RefreshReturn ==
    /\ pc = "meters"
    /\ cur > NumMeters
    /\ returned' = Some(data)
    /\ self_data' = Some(data)
    /\ store' = ImportAll(store, data, meter_consumptions)
    /\ result' = "returned"
    /\ pc' = "idle"
    /\ cur' = 0
    /\ UNCHANGED <<phase, refreshes, cycles, now, latest_update, update_interval,
                   meter_consumptions, data, error, updated, fetched, queried>>
    /\ UNCHANGED svars
    /\ UNCHANGED lvars

----------------------------------------------------------------------------
(* async_setup_entry and async_reload_entry *)

\* __init__.py lines 38-41: the first refresh failed or returned nothing, the
\* entry is not ready and setup starts over with a new coordinator
SetupNotReady ==
    /\ phase = "setup"
    /\ pc = "idle"
    /\ result \notin {"none", "running"}
    /\ ~(result = "returned" /\ Truthy(self_data))
    /\ cycles + 1 \in RefreshNumbers
    /\ NewCoordinator
    /\ UNCHANGED <<phase, cycles, now, store>>
    /\ UNCHANGED svars
    /\ UNCHANGED lvars

\* the sensor platform's setup registers the sensor of every meter in
\* coordinator.meter_consumptions
EntitySetupRegisters == Meters

\* __init__.py lines 43-55: the first refresh returned data, the platforms
\* are set up and setup returns True
SetupEntities ==
    /\ phase = "setup"
    /\ pc = "idle"
    /\ result = "returned"
    /\ Truthy(self_data)
    /\ meter_consumptions' = EntitySetupRegisters
    /\ phase' = "ready"
    /\ UNCHANGED <<refreshes, cycles, now, latest_update, update_interval,
                   self_data, store, pc, cur, data, result, error, returned,
                   updated, fetched, queried>>
    /\ UNCHANGED svars
    /\ UNCHANGED lvars

\* __init__.py lines 66-72
Reload ==
    /\ phase = "ready"
    /\ pc = "idle"
    /\ cycles + 1 \in RefreshNumbers
    /\ NewCoordinator
    /\ phase' = "setup"
    /\ UNCHANGED <<cycles, now, store>>
    /\ UNCHANGED svars
    /\ UNCHANGED lvars

Next ==
    \/ RefreshBegin
    \/ MeterStep
    \/ RefreshReturn
    \/ SetupNotReady
    \/ SetupEntities
    \/ Reload

Spec == Init /\ [][Next]_vars

----------------------------------------------------------------------------
(* The services of services.py, and the refresh cycle beside them.  A handler
   runs up to its next await in one step; the source keeps answering a day
   the way it answered it first. *)

Operations == 1..2              \* service calls and refresh cycles explored, together

ErrNoMeter == "Meter number does not exist."
ErrNoData == "No statistical data found"

Days == {d * MinutesPerDay : d \in 0..MaxDay}   \* the days the source may have published
MeterNumbers == 1..(NumMeters + 1)      \* a call's meter_no; the last is no meter of the account
Dates == {None} \cup {Some(d) : d \in Days}     \* a call's optional start or end

\* the readings the source has handed over so far
RECURSIVE HistReadings(_, _)
HistReadings(h, K) ==
    IF K = {} THEN 0
    ELSE LET k == CHOOSE k \in K : TRUE
         IN  Len(h[k].items) + HistReadings(h, K \ {k})

\* the source has nothing for a day that has not begun
Published(day) == day \in Days /\ day <= today(now)

\* what meter.get_hourly_consumptions(day) may answer for meter m after the
\* answers h
Ask(h, m, day) ==
    IF <<m, day>> \in DOMAIN h THEN {h[<<m, day>>]}
    ELSE IF ~Published(day) THEN {NotFound}
    ELSE Responses(day, HistReadings(h, DOMAIN h))

\* the source goes on answering a day the way it first answered it
Asked(h, m, day, r) ==
    IF day \in Days /\ <<m, day>> \notin DOMAIN h THEN (<<m, day>> :> r) @@ h ELSE h

\* another service call or cycle may begin
MayBegin == (cycles - 1) + ncalls + 1 \in Operations

\* a variant that finds a sensor for every meter number
LookupSensorAlways(meter_no) == TRUE

\* services.py lines 97-104 and 164-171: self.coordinator.meter_consumptions.get(meter_no)
LookupSensor(meter_no) == meter_no \in meter_consumptions

SeriesOf(meter_no) == IF meter_no \in DOMAIN store THEN store[meter_no] ELSE <<>>

\* services.py line 129
WhileCondition(iter_date, start_date) ==
    start_date = None \/ iter_date >= The(start_date)

\* a variant that goes on to the next iteration when the day is not found
GoesOnPastNotFound(found, next_date, start_date) ==
    WhileCondition(next_date, start_date)

\* services.py lines 129-154: the loop takes another turn after a day that was
\* found and stops at the break of line 154
GoesOn(found, next_date, start_date) ==
    found /\ WhileCondition(next_date, start_date)

\* services.py lines 139-144: the day's rows go in front of the list, in the
\* order of the dict
PrependDay(historical_states, items) ==
    [i \in 1..Len(items) |->
        [start |-> items[i][1] - MinutesPerHour, state |-> items[i][2]]]
    \o historical_states

\* services.py lines 199-212
RECURSIVE new_statistics(_, _)
new_statistics(old_statistics, total) ==
    IF old_statistics = <<>> THEN <<>>
    ELSE LET t == total + Head(old_statistics).state
         IN  <<[start |-> Head(old_statistics).start,
                state |-> Head(old_statistics).state,
                sum   |-> t]>> \o new_statistics(Tail(old_statistics), t)

\* recorder.statistics.async_import_statistics(hass, metadata, statistics):
\* the import is queued as a task of the recorder thread, which runs it
\* later; `by` names who queued it.  An import of no rows changes nothing
\* and is left out of the queue.
queue_task(queue, meter_no, statistics, by) ==
    IF statistics = <<>> THEN queue
    ELSE Append(queue, [meter_no |-> meter_no, statistics |-> statistics, by |-> by])

Call(op, meter_no, start, end_date) ==
    [op |-> op, meter_no |-> meter_no, start |-> start, end |-> end_date]

InFlight(call, at, iter_date, requested, historical_states, old_statistics) ==
    Some([call |-> call, pc |-> at, iter_date |-> iter_date,
          requested |-> requested, historical_states |-> historical_states,
          old_statistics |-> old_statistics, mark |-> <<cycles, result>>,
          began |-> [store |-> store, pending |-> pending]])

\* what a call left when it ended, with the call that ended before it: mark
\* and ended are the cycles seen when the call began and when it ended
Ended(c, err, st) ==
    Some([call |-> c.call, error |-> err, requested |-> c.requested,
          historical_states |-> c.historical_states,
          old_statistics |-> c.old_statistics, mark |-> c.mark,
          ended |-> <<cycles, result>>, store |-> st, began |-> c.began,
          before |-> {[call |-> d.call, error |-> d.error, mark |-> d.mark,
                       ended |-> d.ended, store |-> d.store] : d \in done}])

\* services.py lines 92-126 and, when the loop of line 129 does not run,
\* lines 157-173
download_meter_consumption_history ==
    /\ phase = "ready"
    /\ svc = None
    /\ MayBegin
    /\ ncalls' = ncalls + 1
    /\ \E meter_no \in MeterNumbers, start \in Dates, end \in Dates :
         LET end_date == IF end = None THEN now ELSE The(end)
             call     == Call("download", meter_no, start, end_date)
             begun    == The(InFlight(call, "download", end_date, <<>>, <<>>, <<>>))
         IN  IF ~LookupSensor(meter_no)
             THEN /\ done' = Ended(begun, ErrNoMeter, store)
                  /\ svc' = None
             ELSE /\ svc' = IF WhileCondition(end_date, start)
                            THEN Some(begun)
                            ELSE Some([begun EXCEPT !.pc = "query"])
                  /\ done' = done
    /\ UNCHANGED <<phase, refreshes, cycles, now, latest_update, update_interval,
                   self_data, meter_consumptions, store, pc, cur, data, result,
                   error, returned, updated, fetched, queried, hist, held,
                   pending>>
    /\ UNCHANGED lvars

\* services.py lines 129-154, one day, and lines 157-173 when the loop ends
BackfillDay ==
    /\ svc # None
    /\ The(svc).pc = "download"
    /\ LET c   == The(svc)
           day == today(c.iter_date)
       IN  \E r \in Ask(hist, c.call.meter_no, day) :
             LET next_date == c.iter_date - MinutesPerDay
                 states    == IF r.found
                              THEN PrependDay(c.historical_states, r.items)
                              ELSE c.historical_states
                 goes_on   == GoesOn(r.found, next_date, c.call.start)
             IN  /\ hist' = Asked(hist, c.call.meter_no, day, r)
                 /\ svc' = Some([c EXCEPT
                                   !.requested = Append(@, day),
                                   !.historical_states = states,
                                   !.iter_date = IF r.found THEN next_date ELSE @,
                                   !.pc = IF goes_on THEN "download" ELSE "query"])
                 /\ pending' = IF goes_on THEN pending
                               ELSE queue_task(pending, c.call.meter_no, states,
                                               "download")
    /\ UNCHANGED <<phase, refreshes, cycles, now, latest_update, update_interval,
                   self_data, meter_consumptions, store, pc, cur, data, result,
                   error, returned, updated, fetched, queried, done, ncalls, held>>
    /\ UNCHANGED lvars

\* services.py lines 161-173
recalculate_meter_sum_statistics ==
    /\ phase = "ready"
    /\ svc = None
    /\ MayBegin
    /\ ncalls' = ncalls + 1
    /\ \E meter_no \in MeterNumbers :
         LET call  == Call("recalculate", meter_no, None, now)
             begun == The(InFlight(call, "query", now, <<>>, <<>>, <<>>))
         IN  IF ~LookupSensor(meter_no)
             THEN /\ done' = Ended(begun, ErrNoMeter, store)
                  /\ svc' = None
             ELSE /\ svc' = Some(begun)
                  /\ done' = done
    /\ UNCHANGED <<phase, refreshes, cycles, now, latest_update, update_interval,
                   self_data, meter_consumptions, store, pc, cur, data, result,
                   error, returned, updated, fetched, queried, hist, held,
                   pending>>
    /\ UNCHANGED lvars

\* services.py lines 176-187: the query runs in the recorder's executor
RecomputeQuery ==
    /\ svc # None
    /\ The(svc).pc = "query"
    /\ svc' = Some([The(svc) EXCEPT
                      !.pc = "finish",
                      !.old_statistics = statistics_during_period(
                          SeriesOf(The(svc).call.meter_no), EpochStart, None)])
    /\ UNCHANGED <<phase, refreshes, cycles, now, latest_update, update_interval,
                   self_data, meter_consumptions, store, pc, cur, data, result,
                   error, returned, updated, fetched, queried, hist, done,
                   ncalls, held, pending>>
    /\ UNCHANGED lvars

\* a variant that finds something to recalculate in every series
AlwaysSomethingToRecalculate(old_statistics) == FALSE

\* services.py lines 188-196: old_statistics is None, the series has no row
NothingToRecalculate(old_statistics) == old_statistics = <<>>

\* services.py lines 188-216
RecomputeFinish ==
    /\ svc # None
    /\ The(svc).pc = "finish"
    /\ LET c == The(svc)
       IN  IF NothingToRecalculate(c.old_statistics)
           THEN /\ done' = Ended(c, ErrNoData, store)
                /\ pending' = pending
           ELSE /\ pending' = queue_task(pending, c.call.meter_no,
                                         new_statistics(c.old_statistics, 0),
                                         "recalculate")
                /\ done' = Ended(c, "", store)
    /\ svc' = None
    /\ UNCHANGED <<phase, refreshes, cycles, now, latest_update, update_interval,
                   self_data, meter_consumptions, store, pc, cur, data, result,
                   error, returned, updated, fetched, queried, hist, ncalls, held>>
    /\ UNCHANGED lvars

\* the recorder thread runs the import at the head of its queue
RecorderRuns ==
    /\ pending # <<>>
    /\ store' = [store EXCEPT ![Head(pending).meter_no] =
                    async_import_statistics(@, Head(pending).statistics)]
    /\ pending' = Tail(pending)
    /\ UNCHANGED <<phase, refreshes, cycles, now, latest_update, update_interval,
                   self_data, meter_consumptions, pc, cur, data, result, error,
                   returned, updated, fetched, queried, hist, svc, done, ncalls,
                   held>>
    /\ UNCHANGED lvars

\* coordinator.py lines 90-169: a pass of the second loop up to the await of
\* statistics_during_period, or to its end when it does not query
MeterQuery ==
    /\ pc = "meters"
    /\ cur <= NumMeters
    /\ held = None
    /\ \E rt \in Ask(hist, cur, today(now)) :
         LET h1 == Asked(hist, cur, today(now), rt)
         IN  \E ry \in Ask(h1, cur, yesterday(now)) :
               LET hourly == hourly_consumptions(rt, ry)
                   sensor == cur \in meter_consumptions
               IN  /\ hist' = Asked(h1, cur, yesterday(now), ry)
                   /\ fetched' = Some([meter |-> cur, sensor |-> sensor,
                                       today |-> rt, yesterday |-> ry])
                   /\ IF QueriesStore(hourly, sensor)
                      THEN /\ held' = Some([meter |-> cur, hourly |-> hourly,
                                            old_statistics |->
                                                statistics_during_period(
                                                    store[cur], EpochStart,
                                                    Some(yesterday(now)))])
                           /\ queried' = queried \cup {cur}
                           /\ UNCHANGED <<data, cur>>
                      ELSE /\ held' = None
                           /\ data' = SetData(data, cur, UnregisteredStatistics(hourly))
                           /\ cur' = cur + 1
                           /\ UNCHANGED queried
    /\ UNCHANGED <<phase, refreshes, cycles, now, latest_update, update_interval,
                   self_data, meter_consumptions, store, pc, result, error,
                   returned, updated, svc, done, ncalls, pending>>
    /\ UNCHANGED lvars

\* coordinator.py lines 170-196: the pass goes on with what the query read
MeterRows ==
    /\ held # None
    /\ LET p     == The(held)
           total == BaselineTotal(p.old_statistics)
       IN  IF total = None
           THEN /\ result' = "TypeError"
                /\ pc' = "idle"
                /\ data' = <<>>
                /\ UNCHANGED cur
           ELSE /\ data' = SetData(data, p.meter,
                                         RegisteredStatistics(p.hourly, The(total)))
                /\ cur' = cur + 1
                /\ UNCHANGED <<result, pc>>
    /\ held' = None
    /\ UNCHANGED <<phase, refreshes, cycles, now, latest_update, update_interval,
                   self_data, meter_consumptions, store, error, returned, updated,
                   fetched, queried, hist, svc, done, ncalls, pending>>
    /\ UNCHANGED lvars

\* the entry is set up: the first refresh found no history for any meter and
\* the sensors are registered
EntrySetUpAt(t) ==
    /\ phase = "ready"
    /\ refreshes = 1
    /\ cycles = 1
    /\ now = t
    /\ latest_update = Some(t)
    /\ update_interval = Some(MinutesPerHour)
    /\ self_data = Some([m \in Meters |-> <<>>])
    /\ meter_consumptions = EntitySetupRegisters
    /\ store = [m \in Meters |-> <<>>]
    /\ pc = "idle"
    /\ cur = 0
    /\ data = [m \in Meters |-> <<>>]
    /\ result = "returned"
    /\ error = ""
    /\ returned = Some([m \in Meters |-> <<>>])
    /\ updated = [m \in Meters |-> TRUE]
    /\ fetched = Some([meter |-> NumMeters, sensor |-> FALSE,
                       today |-> NotFound, yesterday |-> NotFound])
    /\ queried = {}
    /\ hist = <<>>
    /\ svc = None
    /\ done = None
    /\ ncalls = 0
    /\ held = None
    /\ pending = <<>>

EntryIsSetUp == EntrySetUpAt(MinutesPerDay)

InitServices ==
    /\ EntryIsSetUp
    /\ LegacyIdle

\* a refresh cycle begins beside the services
CycleBegin ==
    /\ MayBegin
    /\ RefreshBegin

\* the imports the listeners of the registered meters queue, in the order
\* of the meters
RECURSIVE QueueAll(_, _, _, _)
QueueAll(queue, payload, registered, m) ==
    IF m > NumMeters THEN queue
    ELSE QueueAll(IF m \in registered
                  THEN queue_task(queue, m, payload[m], "cycle")
                  ELSE queue,
                  payload, registered, m + 1)

\* line 201 beside the services: the returned dict becomes coordinator.data
\* and the listeners queue their imports
CycleReturn ==
    /\ pc = "meters"
    /\ cur > NumMeters
    /\ held = None
    /\ returned' = Some(data)
    /\ self_data' = Some(data)
    /\ pending' = QueueAll(pending, data, meter_consumptions, 1)
    /\ result' = "returned"
    /\ pc' = "idle"
    /\ cur' = 0
    /\ UNCHANGED <<phase, refreshes, cycles, now, latest_update, update_interval,
                   meter_consumptions, store, data, error, updated, fetched,
                   queried, hist, svc, done, ncalls, held>>
    /\ UNCHANGED lvars

NextServices ==
    \/ CycleBegin
    \/ MeterQuery
    \/ MeterRows
    \/ CycleReturn
    \/ RecorderRuns
    \/ download_meter_consumption_history
    \/ BackfillDay
    \/ recalculate_meter_sum_statistics
    \/ RecomputeQuery
    \/ RecomputeFinish

SpecServices == InitServices /\ [][NextServices]_vars

\* the service calls and the recorder, with no refresh cycle beside them
NextCalls ==
    \/ download_meter_consumption_history
    \/ BackfillDay
    \/ recalculate_meter_sum_statistics
    \/ RecomputeQuery
    \/ RecomputeFinish
    \/ RecorderRuns

\* the entry was set up on the last day: the source may have every day
InitCalls ==
    /\ EntrySetUpAt(MaxDay * MinutesPerDay)
    /\ LegacyIdle

SpecCalls == InitCalls /\ [][NextCalls]_vars

----------------------------------------------------------------------------
(* services.py, the cost service.  A str is the sequence of its characters. *)

MaxQuantity == 9    \* a call's consumption is in 0..MaxQuantity

Uppercase == <<"A", "B", "C", "D", "E", "F", "G", "H", "I", "J", "K", "L", "M",
               "N", "O", "P", "Q", "R", "S", "T", "U", "V", "W", "X", "Y", "Z">>
Lowercase == <<"a", "b", "c", "d", "e", "f", "g", "h", "i", "j", "k", "l", "m",
               "n", "o", "p", "q", "r", "s", "t", "u", "v", "w", "x", "y", "z">>

\* str.lower()
lower(str) ==
    [i \in 1..Len(str) |->
        IF \E k \in 1..Len(Uppercase) : Uppercase[k] = str[i]
        THEN Lowercase[CHOOSE k \in 1..Len(Uppercase) : Uppercase[k] = str[i]]
        ELSE str[i]]

\* sub in str
Contains(sub, str) ==
    \E i \in 0..(Len(str) - Len(sub)) : SubSeq(str, i + 1, i + Len(sub)) = sub

Electric == <<"e", "l", "e", "c", "t", "r", "i", "c">>
Water == <<"w", "a", "t", "e", "r">>

\* the utility types a caller may name
TypeNames ==
    { <<"e", "l", "e", "c", "t", "r", "i", "c", "i", "t", "y">>,
      <<"E", "l", "e", "c", "t", "r", "i", "c", "i", "t", "y", " ", "M", "e", "t", "e", "r">>,
      <<"E", "L", "E", "C", "T", "R", "I", "C">>,
      <<"w", "a", "t", "e", "r">>,
      <<"H", "o", "t", " ", "W", "a", "t", "e", "r">>,
      <<"g", "a", "s">>,
      <<"e", "l", "e", "c", "t", "r", "o">> }

Quantities == 0..MaxQuantity

\* the data of a service call: with the fields of the schema, with
\* meter_type in the place of type, and with both
CostCalls ==
    {[consumption |-> q, type |-> t] : q \in Quantities, t \in TypeNames}
    \cup {[consumption |-> q, meter_type |-> t] : q \in Quantities, t \in TypeNames}
    \cup {[consumption |-> q, type |-> t, meter_type |-> t] :
              q \in Quantities, t \in TypeNames}

\* services.py lines 38-43: both keys are required and vol.Schema refuses a
\* key it does not name
CALCULATE_COST_RESPONSE_SERVICE_SCHEMA(call_data) ==
    DOMAIN call_data = {"consumption", "type"}

ErrMeterType == "Meter type not valid."

\* USMSMeter.calculate_cost(consumption, meter_type): the cost of the
\* consumption under the tariff of the meter type
calculate_cost(consumption, meter_type) ==
    [tariff |-> meter_type, consumption |-> consumption]

\* services.py lines 235-248, the handler on the data of a call
CostHandler(call_data) ==
    IF "consumption" \notin DOMAIN call_data
    THEN [kind |-> "KeyError", key |-> "consumption"]
    ELSE IF "meter_type" \notin DOMAIN call_data
    THEN [kind |-> "KeyError", key |-> "meter_type"]
    ELSE LET meter_type == call_data.meter_type
         IN  IF \/ Contains(Electric, lower(meter_type))
                \/ Contains(Water, lower(meter_type))
             THEN [kind |-> "response",
                   cost |-> calculate_cost(call_data.consumption, "Electricity")]
             ELSE [kind |-> "HomeAssistantError", message |-> ErrMeterType]

\* services.py lines 84-90: the service is registered with the schema, which
\* the data of a call must pass before the handler runs
ServiceCallOutcome(call_data) ==
    IF CALCULATE_COST_RESPONSE_SERVICE_SCHEMA(call_data)
    THEN CostHandler(call_data)
    ELSE [kind |-> "Invalid"]

\* services.py lines 224-248
calculate_utility_cost_response_service ==
    /\ \E call_data \in CostCalls :
          cost' = Some([data |-> call_data, outcome |-> ServiceCallOutcome(call_data)])
    /\ UNCHANGED <<phase, refreshes, cycles, now, latest_update, update_interval,
                   self_data, meter_consumptions, store, pc, cur, data, result,
                   error, returned, updated, fetched, queried, historical,
                   statistic>>
    /\ UNCHANGED svars
    /\ UNCHANGED xvars

InitCost ==
    /\ EntryIsSetUp
    /\ LegacyIdle

NextCost == calculate_utility_cost_response_service

SpecCost == InitCost /\ [][NextCost]_vars

----------------------------------------------------------------------------
(* sensor.py, the legacy sensor: get_historical_states.  The meter's        *)
(* get_hourly_consumptions(day) returns a dict keyed by the hour, 1 to 24.  *)

HistoricalDays == 0..2          \* the days the legacy source may have published
LegacyHours == {1, 24}          \* the hours a day's dict may hold
TimesOfDay == {0, 720}          \* a bound is given at midnight or at noon

\* the dicts a published day may give: readings for some of the hours, in the
\* order of the hours
LegacyDicts ==
    {<<<<1, c>>>> : c \in Consumptions}
    \cup {<<<<24, c>>>> : c \in Consumptions}
    \cup {<<<<1, c>>, <<24, d>>>> : c \in Consumptions, d \in Consumptions}

\* what self._meter.get_hourly_consumptions(day) may do: raise, or return a dict
LegacyResponses(day) ==
    IF day \in {d * MinutesPerDay : d \in HistoricalDays}
    THEN {NotFound} \cup {Found(items) : items \in LegacyDicts}
    ELSE {NotFound}

\* the start_date and end_date a caller may pass
HistoricalBounds ==
    {None} \cup {Some(d * MinutesPerDay + t) : d \in HistoricalDays, t \in TimesOfDay}

\* sensor.py line 234, with the start_date of lines 223-224
HistoricalWhile(iter_date, start_date) ==
    start_date = None \/ iter_date >= The(start_date)

\* a variant that puts hour 24 at hour 0 of the day itself
HistoricalDtSameDay(iter_date, hour) ==
    IF hour = 24 THEN today(iter_date) ELSE today(iter_date) + hour * MinutesPerHour

\* sensor.py lines 241-266: the datetime of a reading
HistoricalDt(iter_date, hour) ==
    IF hour = 24
    THEN today(iter_date + MinutesPerDay)
    ELSE today(iter_date) + hour * MinutesPerHour

\* sensor.py lines 240-267: the day's states go in front of the list, in the
\* order of the dict
HistoricalPrepend(historical_states, iter_date, items) ==
    [i \in 1..Len(items) |->
        [dt |-> HistoricalDt(iter_date, items[i][1]), state |-> items[i][2]]]
    \o historical_states

\* sensor.py lines 211-233, and line 276 when the loop does not run
get_historical_states ==
    /\ historical = None
    /\ \E start_date \in HistoricalBounds, end_date \in HistoricalBounds :
         LET iter_date == IF end_date # None THEN The(end_date) ELSE now
         IN  historical' = Some([start_date |-> start_date, end_date |-> end_date,
                                 first |-> iter_date, iter_date |-> iter_date,
                                 asked |-> <<>>, historical_states |-> <<>>,
                                 pc |-> IF HistoricalWhile(iter_date, start_date)
                                        THEN "loop" ELSE "returned"])
    /\ UNCHANGED <<phase, refreshes, cycles, now, latest_update, update_interval,
                   self_data, meter_consumptions, store, pc, cur, data, result,
                   error, returned, updated, fetched, queried, cost, statistic>>
    /\ UNCHANGED svars
    /\ UNCHANGED xvars

\* sensor.py lines 234-276: one turn of the loop, and the return when it is
\* the last
HistoricalDay ==
    /\ historical # None
    /\ The(historical).pc = "loop"
    /\ LET c   == The(historical)
           day == today(c.iter_date)
       IN  \E r \in LegacyResponses(day) :
             LET next_date == c.iter_date - MinutesPerDay
             IN  historical' = Some([c EXCEPT
                     !.asked = Append(@, [day |-> day, response |-> r]),
                     !.historical_states =
                         IF r.found
                         THEN HistoricalPrepend(@, c.iter_date, r.items)
                         ELSE @,
                     !.iter_date = IF r.found THEN next_date ELSE @,
                     !.pc = IF r.found /\ HistoricalWhile(next_date, c.start_date)
                            THEN "loop" ELSE "returned"])
    /\ UNCHANGED <<phase, refreshes, cycles, now, latest_update, update_interval,
                   self_data, meter_consumptions, store, pc, cur, data, result,
                   error, returned, updated, fetched, queried, cost, statistic>>
    /\ UNCHANGED svars
    /\ UNCHANGED xvars

InitHistorical ==
    /\ Constructed
    /\ LegacyIdle

NextHistorical ==
    \/ get_historical_states
    \/ HistoricalDay

SpecHistorical == InitHistorical /\ [][NextHistorical]_vars

----------------------------------------------------------------------------
(* sensor.py, the legacy sensor: async_calculate_statistic_data *)

MaxStates == 3                      \* hist_states holds at most MaxStates states
StatisticTimes == {30, 60, 90, 120} \* the dt of a state: on the hour or at the half hour
LatestSums == {0, 5}                \* the sum of latest, when latest is given

HistoricalStates == {[dt |-> t, state |-> c] : t \in StatisticTimes, c \in Consumptions}

\* the lists hist_states may be, in any order
HistStateLists == UNION {[1..n -> HistoricalStates] : n \in 0..MaxStates}

Latests == {None} \cup {Some([sum |-> b]) : b \in LatestSums}

\* a variant that puts a state on the hour into the block that begins there
hour_block_of_the_hour(dt) == (dt \div MinutesPerHour) * MinutesPerHour

\* sensor.py lines 307-314
hour_block_for_hist_state(dt) ==
    IF dt % MinutesPerHour = 0
    THEN ((dt - MinutesPerHour) \div MinutesPerHour) * MinutesPerHour
    ELSE (dt \div MinutesPerHour) * MinutesPerHour

\* itertools.groupby(hist_states, key=hour_block_for_hist_state): a group is
\* a longest run of consecutive states with the same key
RECURSIVE groupby(_)
groupby(hist_states) ==
    IF hist_states = <<>> THEN <<>>
    ELSE LET k == hour_block_for_hist_state(hist_states[1].dt)
             n == CHOOSE n \in 1..Len(hist_states) :
                      /\ \A i \in 1..n : hour_block_for_hist_state(hist_states[i].dt) = k
                      /\ \/ n = Len(hist_states)
                         \/ hour_block_for_hist_state(hist_states[n + 1].dt) # k
         IN  <<[dt |-> k, collection |-> SubSeq(hist_states, 1, n)]>>
             \o groupby(SubSeq(hist_states, n + 1, Len(hist_states)))

\* sum([x.state for x in collection])
RECURSIVE partial_sum(_)
partial_sum(collection) ==
    IF collection = <<>> THEN 0
    ELSE Head(collection).state + partial_sum(Tail(collection))

\* sensor.py lines 316-335: the mean is kept as the fraction it is
RECURSIVE StatisticRows(_, _)
StatisticRows(groups, accumulated) ==
    IF groups = <<>> THEN <<>>
    ELSE LET g   == Head(groups)
             acc == accumulated + partial_sum(g.collection)
         IN  <<[start |-> g.dt,
                state |-> partial_sum(g.collection),
                mean  |-> <<partial_sum(g.collection), Len(g.collection)>>,
                sum   |-> acc]>> \o StatisticRows(Tail(groups), acc)

\* sensor.py lines 294-335
async_calculate_statistic_data ==
    /\ statistic = None
    /\ \E hist_states \in HistStateLists, latest \in Latests :
         LET accumulated == IF latest # None THEN The(latest).sum ELSE 0
         IN  statistic' = Some([hist_states |-> hist_states, latest |-> latest,
                                ret |-> StatisticRows(groupby(hist_states), accumulated)])
    /\ UNCHANGED <<phase, refreshes, cycles, now, latest_update, update_interval,
                   self_data, meter_consumptions, store, pc, cur, data, result,
                   error, returned, updated, fetched, queried, cost, historical>>
    /\ UNCHANGED svars
    /\ UNCHANGED xvars

InitStatistic ==
    /\ Constructed
    /\ LegacyIdle

NextStatistic == async_calculate_statistic_data

SpecStatistic == InitStatistic /\ [][NextStatistic]_vars

-----------------------------------------------------------------------------
(* The backfill's walk over the dates a datetime can hold
   (services.py, download_meter_consumption_history, lines 106-154).
   The calendar is cut down to a few days: the first begins at datetime.min,
   the last holds datetime.max.  The source answers each day as it likes. *)

RepresentableDays == 0..3

WalkDates == {d * MinutesPerDay + t : d \in RepresentableDays, t \in TimesOfDay}

\* what strptime(..., "%Y-%m-%d") gives: a midnight
WalkMidnights == {d * MinutesPerDay : d \in RepresentableDays}

\* services.py line 113: datetime.min, the earliest representable time
datetime_min == CHOOSE t \in WalkDates : \A u \in WalkDates : t <= u

\* datetime.max, the latest representable time
datetime_max == CHOOSE t \in WalkDates : \A u \in WalkDates : u <= t

ErrOverflow == "OverflowError: date value out of range"

\* datetime +/- timedelta raises OverflowError when the result is outside
\* [datetime.min, datetime.max]
Representable(t) == datetime_min <= t /\ t <= datetime_max

\* services.py lines 106-127: the bounds and the first iteration date;
\* `now` is the time of the call when end is not given
WalkBounds ==
    /\ walk = None
    /\ \E start \in {None} \cup {Some(t) : t \in WalkMidnights},
          end \in {None} \cup {Some(t) : t \in WalkMidnights},
          at \in WalkDates :
         LET start_date == IF start # None THEN The(start) ELSE datetime_min
             end_date   == IF end # None THEN The(end) ELSE at
         IN  walk' = Some([start |-> start, start_date |-> start_date,
                           end_date |-> end_date, iter_date |-> end_date,
                           turns |-> 0, found |-> 0, pc |-> "loop", error |-> ""])
    /\ UNCHANGED <<phase, refreshes, cycles, now, latest_update, update_interval,
                   self_data, meter_consumptions, store, pc, cur, data, result,
                   error, returned, updated, fetched, queried, cost, historical,
                   statistic, units>>
    /\ UNCHANGED svars

\* services.py lines 129-154: one turn of the loop.  A day found moves the
\* iteration date one day earlier (line 147); a day not found evaluates
\* iter_date + timedelta(days=1) for the message of line 151 and breaks.
\* Only USMSConsumptionHistoryNotFoundError is caught: an OverflowError of
\* either computation leaves the handler.
WalkTurn ==
    /\ walk # None
    /\ The(walk).pc = "loop"
    /\ WhileCondition(The(walk).iter_date, Some(The(walk).start_date))
    /\ \E found \in BOOLEAN :
         LET w        == The(walk)
             computed == IF found THEN w.iter_date - MinutesPerDay
                                  ELSE w.iter_date + MinutesPerDay
         IN  walk' = Some([w EXCEPT
                 !.turns = @ + 1,
                 !.found = IF found THEN @ + 1 ELSE @,
                 !.iter_date = IF found /\ Representable(computed)
                               THEN computed ELSE @,
                 !.pc = IF ~Representable(computed) THEN "raised"
                        ELSE IF found THEN "loop" ELSE "import",
                 !.error = IF ~Representable(computed) THEN ErrOverflow ELSE ""])
    /\ UNCHANGED <<phase, refreshes, cycles, now, latest_update, update_interval,
                   self_data, meter_consumptions, store, pc, cur, data, result,
                   error, returned, updated, fetched, queried, cost, historical,
                   statistic, units>>
    /\ UNCHANGED svars

\* services.py line 129: the condition is false and the loop is left for the
\* import of line 157
WalkOver ==
    /\ walk # None
    /\ The(walk).pc = "loop"
    /\ ~WhileCondition(The(walk).iter_date, Some(The(walk).start_date))
    /\ walk' = Some([The(walk) EXCEPT !.pc = "import"])
    /\ UNCHANGED <<phase, refreshes, cycles, now, latest_update, update_interval,
                   self_data, meter_consumptions, store, pc, cur, data, result,
                   error, returned, updated, fetched, queried, cost, historical,
                   statistic, units>>
    /\ UNCHANGED svars

InitWalk ==
    /\ Constructed
    /\ LegacyIdle

NextWalk ==
    \/ WalkBounds
    \/ WalkTurn
    \/ WalkOver

SpecWalk == InitWalk /\ [][NextWalk]_vars

-----------------------------------------------------------------------------
(* The legacy sensor platform's entities (sensor.py, setup_platform,
   EnergyUnit and EnergyConsumption, lines 52-176).  Each class body binds
   _attr_extra_state_attributes to one dict; no __init__ assigns the
   attribute, so an entity's self._attr_extra_state_attributes is the dict of
   its class. *)

UnitHours == 0..3
UnitTimes == {h * MinutesPerHour : h \in UnitHours}
Credits == 0..1
MeterTypes == {"Electricity", "Water"}

\* the meters of the account, as the platform finds them
AccountMeters ==
    [Meters -> [active : BOOLEAN, type : MeterTypes,
                last_updated : {0, MinutesPerHour}, credit : Credits]]

\* sensor.py lines 98-101 and 156-158: the dicts of the class bodies
ClassAttributes ==
    [EnergyUnit        |-> [credit |-> None, last_update |-> None],
     EnergyConsumption |-> [last_update |-> None]]

\* self._attr_extra_state_attributes of an entity: the attribute is not set
\* on the instance and is found on its class
extra_state_attributes(u, entity) == u.attributes[entity.class]

\* sensor.py lines 103-118: EnergyUnit.__init__(meter)
EnergyUnitInit(u, meter_no) ==
    LET meter == u.meters[meter_no]
        wrote == [credit |-> Some(meter.credit),
                  last_update |-> Some(meter.last_updated)]
    IN  [u EXCEPT
            !.attributes.EnergyUnit = wrote,
            !.entities = Append(@, [class |-> "EnergyUnit", meter |-> meter_no,
                                    wrote |-> wrote])]

\* sensor.py lines 160-176: EnergyConsumption.__init__(meter)
EnergyConsumptionInit(u, meter_no) ==
    LET meter == u.meters[meter_no]
        wrote == [last_update |-> Some(meter.last_updated)]
    IN  [u EXCEPT
            !.attributes.EnergyConsumption = wrote,
            !.entities = Append(@, [class |-> "EnergyConsumption",
                                    meter |-> meter_no, wrote |-> wrote])]

\* sensor.py lines 52-71: the platform is set up and the account read
setup_platform ==
    /\ units = None
    /\ \E meters \in AccountMeters :
          units' = Some([meters |-> meters, attributes |-> ClassAttributes,
                         entities |-> <<>>, at |-> 1, clock |-> MinutesPerHour,
                         throttled |-> None])
    /\ UNCHANGED <<phase, refreshes, cycles, now, latest_update, update_interval,
                   self_data, meter_consumptions, store, pc, cur, data, result,
                   error, returned, updated, fetched, queried, cost, historical,
                   statistic, walk>>
    /\ UNCHANGED svars

\* sensor.py lines 72-82: one pass of the loop over account.meters
AddEntities ==
    /\ units # None
    /\ The(units).at <= NumMeters
    /\ LET u     == The(units)
           meter == u.meters[u.at]
           added == IF meter.active /\ meter.type = "Electricity"
                    THEN EnergyConsumptionInit(EnergyUnitInit(u, u.at), u.at)
                    ELSE u
       IN  units' = Some([added EXCEPT !.at = @ + 1])
    /\ UNCHANGED <<phase, refreshes, cycles, now, latest_update, update_interval,
                   self_data, meter_consumptions, store, pc, cur, data, result,
                   error, returned, updated, fetched, queried, cost, historical,
                   statistic, walk>>
    /\ UNCHANGED svars

\* sensor.py lines 126-130: (now - last_update).total_seconds() <= 3600
Throttled(t, last_update) == t - The(last_update) <= MinutesPerHour

\* sensor.py lines 120-142: EnergyUnit.update() of one entity, some time
\* after the previous call; meter.update() may bring a later last update
\* and another credit
EnergyUnitUpdate ==
    /\ units # None
    /\ The(units).at > NumMeters
    /\ LET u == The(units)
       IN  \E k \in 1..Len(u.entities), t \in UnitTimes, ok \in BOOLEAN,
              last_updated \in UnitTimes, credit \in Credits :
             LET entity == u.entities[k]
                 meter  == u.meters[entity.meter]
                 held_back == Throttled(t, extra_state_attributes(u, entity).last_update)
                 wrote  == [credit |-> Some(credit),
                            last_update |-> Some(last_updated)]
             IN  /\ entity.class = "EnergyUnit"
                 /\ t >= u.clock
                 /\ meter.last_updated <= last_updated /\ last_updated <= t
                 /\ (held_back \/ ~ok) =>
                        (last_updated = meter.last_updated /\ credit = meter.credit)
                 /\ held_back => ~ok
                 /\ units' = Some(
                      [u EXCEPT
                         !.clock = t,
                         !.throttled = Some([entity |-> k, at |-> t,
                                             own |-> entity.wrote.last_update,
                                             held_back |-> held_back]),
                         !.meters[entity.meter] =
                             IF ok THEN [@ EXCEPT !.last_updated = last_updated,
                                                  !.credit = credit]
                             ELSE @,
                         !.attributes.EnergyUnit = IF ok THEN wrote ELSE @,
                         !.entities[k].wrote = IF ok THEN wrote ELSE @])
    /\ UNCHANGED <<phase, refreshes, cycles, now, latest_update, update_interval,
                   self_data, meter_consumptions, store, pc, cur, data, result,
                   error, returned, updated, fetched, queried, cost, historical,
                   statistic, walk>>
    /\ UNCHANGED svars

InitPlatform ==
    /\ Constructed
    /\ LegacyIdle

NextPlatform ==
    \/ setup_platform
    \/ AddEntities
    \/ EnergyUnitUpdate

SpecPlatform == InitPlatform /\ [][NextPlatform]_vars

----------------------------------------------------------------------------
(* What the refresh cycle is said to do *)

\* the estimate the latest cycle computed, latest_update + 1 hour, was before
\* the cycle's now
EstimateLapsed ==
    latest_update # None /\ The(latest_update) + MinutesPerHour < now

\* the latest cycle called update(True) on every meter and every call succeeded
AllUpdated == Len(updated) = NumMeters /\ \A i \in Meters : updated[i]

\* C1: when the forced update of any one meter reports failure, the cycle
\* fails with UpdateFailed, update_interval is 5 minutes, no rows are built
\* for any meter and no payload is returned.
C1_ForcedUpdateFailureFailsCycle ==
    (\E i \in 1..Len(updated) : ~updated[i]) =>
        /\ result = "UpdateFailed"
        /\ error = ErrRetrieving
        /\ update_interval = Some(RetryMinutes)
        /\ pc = "idle"
        /\ data = <<>>
        /\ queried = {}
        /\ returned = None

\* a refresh after the first one in which the first meter updated and the
\* last one did not
C1_Witness ==
    /\ refreshes >= 2
    /\ Len(updated) = NumMeters
    /\ updated[1]
    /\ ~updated[NumMeters]
    /\ result = "UpdateFailed"

\* C2: a lapsed estimate does not fail the first refresh of a coordinator,
\* and fails the second and every later refresh with UpdateFailed.
C2_LapsedFailsAfterFirstRefresh ==
    EstimateLapsed =>
        IF refreshes = 1
        THEN result \in {"running", "returned"}
        ELSE /\ result = "UpdateFailed"
             /\ error = ErrStale
             /\ update_interval = Some(RetryMinutes)
             /\ returned = None

\* a second or later refresh that found the estimate lapsed
C2_Witness ==
    /\ refreshes >= 2
    /\ EstimateLapsed
    /\ result = "UpdateFailed"
    /\ error = ErrStale

----------------------------------------------------------------------------
(* What the rows of a meter are said to be *)

\* the latest pass of the second loop, while its cycle has not raised
PassMeter == The(fetched).meter
PassRows == data[PassMeter]

\* the readings the source handed to the latest pass, as <<hour, consumption>>
PassReadings ==
    LET f == The(fetched)
    IN  {f.today.items[i] : i \in 1..Len(f.today.items)}
        \cup {f.yesterday.items[i] : i \in 1..Len(f.yesterday.items)}

RECURSIVE TotalOf(_)
TotalOf(R) ==
    IF R = {} THEN 0
    ELSE LET r == CHOOSE r \in R : TRUE IN r[2] + TotalOf(R \ {r})

RECURSIVE StateTotal(_)
StateTotal(rows) ==
    IF rows = <<>> THEN 0 ELSE Head(rows).state + StateTotal(Tail(rows))

\* the sum of the last persisted row of meter m that starts before the
\* beginning of yesterday, 0 when there is no such row
PersistedBaseline(m) ==
    LET B == {s \in DOMAIN store[m] : s < yesterday(now)}
    IN  IF B = {} THEN 0
        ELSE store[m][CHOOSE s \in B : \A u \in B : u <= s].sum

StartsAscend(rows) ==
    \A i \in 1..(Len(rows) - 1) : rows[i].start < rows[i + 1].start

\* C4: after any sequence of refresh cycles, every persisted series is a
\* running total: in order of start, each row's sum is the previous row's sum
\* plus its own state, and the sums never decrease.
C4_PersistedSumsAreRunningTotals ==
    \A m \in Meters :
        LET starts == Ascending(DOMAIN store[m])
        IN  \A i \in 2..Len(starts) :
                LET prev == store[m][starts[i - 1]]
                    row  == store[m][starts[i]]
                IN  /\ row.sum = prev.sum + row.state
                    /\ prev.sum <= row.sum

\* C5: for a registered meter with readings, the pass builds one row per
\* reading in ascending order of hour; the row of a reading starts one hour
\* before the reading's hour, has the consumption as state, and as sum the
\* baseline plus the consumptions up to and including the reading, the
\* baseline being the sum of the last row persisted before the beginning of
\* yesterday, or 0 without such a row.
C5_RegisteredRowsContinueBaseline ==
    (fetched # None /\ The(fetched).sensor /\ PassReadings # {}) =>
        /\ result \in {"running", "returned"}
        /\ Len(PassRows) = Cardinality(PassReadings)
        /\ StartsAscend(PassRows)
        /\ \A i \in 1..Len(PassRows) : \E r \in PassReadings :
              /\ PassRows[i].start = r[1] - MinutesPerHour
              /\ PassRows[i].state = r[2]
              /\ PassRows[i].sum = PersistedBaseline(PassMeter)
                    + TotalOf({q \in PassReadings : q[1] <= r[1]})
        /\ result = "returned" => The(returned)[PassMeter] = PassRows

\* a registered meter with readings of both days, continuing a baseline
\* above 0 that is not the first persisted sum
C5_Witness ==
    /\ fetched # None
    /\ The(fetched).sensor
    /\ result = "returned"
    /\ Len(PassRows) >= 2
    /\ PersistedBaseline(PassMeter) > 0
    /\ PassRows[1].sum > PassRows[1].state

\* C6: the sums of a registered meter's rows never decrease, and the last
\* sum is the baseline plus the total of the rows' states.
C6_SumsNonDecreasingLastIsTotal ==
    (fetched # None /\ The(fetched).sensor /\ PassReadings # {}) =>
        /\ result \in {"running", "returned"}
        /\ PassRows # <<>>
        /\ \A i \in 1..Len(PassRows) : \A j \in i..Len(PassRows) :
              PassRows[i].sum <= PassRows[j].sum
        /\ PassRows[Len(PassRows)].sum
              = PersistedBaseline(PassMeter) + StateTotal(PassRows)

\* rows of a registered meter whose sums grow from a baseline above 0
C6_Witness ==
    /\ fetched # None
    /\ The(fetched).sensor
    /\ result = "returned"
    /\ Len(PassRows) >= 2
    /\ PersistedBaseline(PassMeter) > 0
    /\ PassRows[1].sum < PassRows[Len(PassRows)].sum

\* C7: the rows of a meter are in ascending order of start whatever order
\* the readings arrived in, whether the meter is registered or not.
C7_RowsAscendInBothBranches ==
    (fetched # None /\ result \in {"running", "returned"}) =>
        StartsAscend(PassRows)

\* C8: when today is not found and yesterday has readings, the cycle goes on
\* and the meter's rows are yesterday's readings, one row each, none of today.
C8_TodayNotFoundGivesYesterdaysRows ==
    (fetched # None /\ ~The(fetched).today.found /\ The(fetched).yesterday.found) =>
        LET Y == The(fetched).yesterday.items
        IN  /\ result \in {"running", "returned"}
            /\ Len(PassRows) = Len(Y)
            /\ \A i \in 1..Len(Y) : \E j \in 1..Len(PassRows) :
                  /\ PassRows[j].start = Y[i][1] - MinutesPerHour
                  /\ PassRows[j].state = Y[i][2]
            /\ \A j \in 1..Len(PassRows) : PassRows[j].start < today(now)
            /\ result = "returned" => The(returned)[PassMeter] = PassRows

\* a returned cycle whose last meter had two readings of yesterday and no today
C8_Witness ==
    /\ fetched # None
    /\ ~The(fetched).today.found
    /\ Len(The(fetched).yesterday.items) >= 2
    /\ result = "returned"
    /\ Len(The(returned)[PassMeter]) >= 2

\* C9: for an unregistered meter the pass builds one row per reading with a
\* start and a state and no sum, and does not query the store for the meter.
C9_UnregisteredRowsWithoutSum ==
    (fetched # None /\ ~The(fetched).sensor) =>
        /\ result \in {"running", "returned"}
        /\ Len(PassRows) = Cardinality(PassReadings)
        /\ \A r \in PassReadings : \E j \in 1..Len(PassRows) :
              PassRows[j] = [start |-> r[1] - MinutesPerHour, state |-> r[2]]
        /\ PassMeter \notin queried

\* an unregistered meter with readings whose series has persisted rows
C9_Witness ==
    /\ fetched # None
    /\ ~The(fetched).sensor
    /\ result = "returned"
    /\ Len(PassRows) >= 2
    /\ store[PassMeter] # <<>>

\* C10: a pass that gets no reading for either day records the empty list
\* for its meter, does not query the store, leaves the rows of the other
\* meters as they are and moves on to the next meter.
C10_EmptyMeterIsSkipped ==
    [][(/\ pc = "meters"
        /\ cur \in Meters
        /\ fetched' # None
        /\ ~The(fetched').today.found
        /\ ~The(fetched').yesterday.found)
       => (/\ data' = data @@ (cur :> <<>>)
           /\ queried' = queried
           /\ store' = store
           /\ result' = "running"
           /\ pc' = "meters"
           /\ cur' = cur + 1)]_vars

\* a registered meter with persisted rows got no reading after another meter
\* of the cycle got rows
C10_Witness ==
    /\ fetched # None
    /\ The(fetched).sensor
    /\ ~The(fetched).today.found
    /\ ~The(fetched).yesterday.found
    /\ store[PassMeter] # <<>>
    /\ PassRows = <<>>
    /\ \E m \in DOMAIN data : data[m] # <<>>
    /\ result = "returned"

\* C11: after a cycle that got past the forced updates, update_interval is
\* 5 minutes when latest_update + 1 hour is before now and is
\* latest_update + 1 hour - now otherwise; once a cycle has set it,
\* update_interval is never negative.
C11_IntervalFollowsEstimate ==
    /\ latest_update # None =>
          update_interval =
              Some(IF The(latest_update) + MinutesPerHour < now
                   THEN RetryMinutes
                   ELSE The(latest_update) + MinutesPerHour - now)
    /\ \A i \in update_interval : i >= 0

\* a refresh after the first whose estimate is exactly now: it returns and
\* the interval is 0
C11_Witness ==
    /\ refreshes >= 2
    /\ latest_update = Some(now - MinutesPerHour)
    /\ update_interval = Some(0)
    /\ result = "returned"

----------------------------------------------------------------------------
(* What the services are said to do *)

\* what the source answered meter m for a day
Answered(m, day) ==
    IF <<m, day>> \in DOMAIN hist THEN hist[<<m, day>>] ELSE NotFound

\* the rows of the readings of the days in D that meter m has
RowsOfDays(m, D) ==
    UNION {{[start |-> Answered(m, day).items[i][1] - MinutesPerHour,
             state |-> Answered(m, day).items[i][2]] :
                i \in 1..Len(Answered(m, day).items)} : day \in D}

SeqRange(q) == {q[i] : i \in 1..Len(q)}

\* C12: a backfill asks the source for the day of end_date, then for the day
\* before, and so on; it asks for no day before start_date and for no day
\* after the first one the source reports as not found; it stops only there
\* or at start_date; and the rows it imports are the rows of the days it
\* got: they are in the recorder's queue or, the recorder having run the
\* import, in the store.
C12_BackfillStopsAtFirstNotFound ==
    \A c \in svc \cup done :
        (c.call.op = "download" /\ LookupSensor(c.call.meter_no)) =>
            LET req == c.requested
                m   == c.call.meter_no
                over == "error" \in DOMAIN c \/ c.pc # "download"
            IN  /\ \A i \in 1..Len(req) :
                      /\ req[i] = today(c.call.end) - (i - 1) * MinutesPerDay
                      /\ \A st \in c.call.start : req[i] >= st
                      /\ i < Len(req) => Answered(m, req[i]).found
                /\ over =>
                      /\ \/ req # <<>> /\ ~Answered(m, req[Len(req)]).found
                         \/ \E st \in c.call.start :
                               today(c.call.end) - Len(req) * MinutesPerDay < st
                      /\ SeqRange(c.historical_states) = RowsOfDays(m, SeqRange(req))
                      /\ Len(c.historical_states)
                            = Cardinality(RowsOfDays(m, SeqRange(req)))
                /\ (over /\ c.historical_states # <<>>) =>
                      \/ \E k \in 1..Len(pending) :
                            /\ pending[k].meter_no = m
                            /\ pending[k].statistics = c.historical_states
                      \/ \A r \in SeqRange(c.historical_states) :
                            /\ r.start \in DOMAIN store[m]
                            /\ store[m][r.start].state = r.state

\* a backfill from the last day down to day 0 that got the last day, found
\* the day before missing and imported the last day's rows only
C12_Witness ==
    \E d \in done :
        /\ d.call.op = "download"
        /\ d.call.start = Some(0)
        /\ d.call.end = MaxDay * MinutesPerDay
        /\ Len(d.requested) = 2
        /\ ~Answered(d.call.meter_no, d.requested[2]).found
        /\ d.historical_states # <<>>
        /\ pending = <<>>
        /\ DOMAIN store[d.call.meter_no]
              = {r.start : r \in SeqRange(d.historical_states)}

RECURSIVE StatesUpTo(_, _, _)
StatesUpTo(series, S, s) ==
    IF S = {} THEN 0
    ELSE LET x == CHOOSE x \in S : TRUE
         IN  (IF x <= s THEN series[x].state ELSE 0) + StatesUpTo(series, S \ {x}, s)

\* every row has a sum, the total of the states of the rows up to and
\* including it
RunningTotals(series) ==
    \A s \in DOMAIN series :
        /\ "sum" \in DOMAIN series[s]
        /\ series[s].sum = StatesUpTo(series, DOMAIN series, s)

\* C13: when a recompute has completed on a series with rows and the
\* recorder has run every import queued, every persisted row of the series
\* has as sum the running total, from 0, of the states in ascending order of
\* start.
C13_RecomputeLeavesRunningTotals ==
    \A d \in done :
        (/\ d.error = ""
         /\ d.old_statistics # <<>>
         /\ svc = None
         /\ pending = <<>>
         /\ d.ended = <<cycles, result>>) =>
            RunningTotals(store[d.call.meter_no])

\* C14: a backfill with its recompute that runs again over the same range,
\* the first run's imports persisted before it begins and the source
\* answering as before, leaves, once its own imports are persisted, the rows
\* the first run left.
C14_BackfillTwiceIsBackfillOnce ==
    \A e \in done : \A d \in e.before :
        (/\ e.call.op = "download"
         /\ d.call = e.call
         /\ d.ended = d.mark /\ e.mark = d.mark /\ e.ended = d.mark
         /\ e.ended = <<cycles, result>>
         /\ e.began.pending = <<>>
         /\ svc = None
         /\ pending = <<>>) =>
            store = e.began.store

\* C15: service calls and refresh cycles exclude one another: from the moment
\* a cycle has read a meter's sum baseline from the store until it has
\* produced that meter's rows, no backfill or recompute begins, takes a step
\* or ends, and no import is queued.
C15_ServicesKeptOutOfCycle ==
    [][held # None =>
          (svc' = svc /\ done' = done /\ Len(pending') <= Len(pending))]_vars

\* C16: a recompute that queries a series without persisted rows gets no
\* rows, ends with the error "No statistical data found", queues no import
\* and leaves the store as it is.
C16_RecomputeOfNothingIsAnError ==
    [][\A c \in svc :
          /\ (c.pc = "query" /\ SeriesOf(c.call.meter_no) = <<>> /\ svc' # svc) =>
                 /\ svc' = Some([c EXCEPT !.pc = "finish"])
                 /\ store' = store
                 /\ pending' = pending
          /\ (c.pc = "finish" /\ c.old_statistics = <<>> /\ svc' # svc) =>
                 /\ svc' = None
                 /\ store' = store
                 /\ pending' = pending
                 /\ \E d \in done' : d.call = c.call /\ d.error = ErrNoData]_vars

\* a recompute called on its own has ended with that error on a registered
\* meter whose series is empty
C16_Witness ==
    \E d \in done :
        /\ d.call.op = "recalculate"
        /\ LookupSensor(d.call.meter_no)
        /\ d.error = ErrNoData
        /\ d.old_statistics = <<>>
        /\ store[d.call.meter_no] = <<>>
        /\ d.store = store

\* C17: a backfill or a recompute called with a meter number that is not in
\* meter_consumptions ends at once with the error "Meter number does not
\* exist.": it has asked the source for no day, has queried nothing and
\* queued no import, and the store is as it was; no call goes on with such a
\* number.
C17_UnknownMeterIsRefusedFirst ==
    [][ncalls' # ncalls =>
          /\ \A c \in svc' : c.call.meter_no \in meter_consumptions
          /\ svc' = None =>
                \E d \in done' :
                    /\ d.call.meter_no \notin meter_consumptions
                    /\ d.error = ErrNoMeter
                    /\ d.requested = <<>>
                    /\ d.old_statistics = <<>>
                    /\ d.store = store
                    /\ store' = store
                    /\ pending' = pending
                    /\ hist' = hist]_vars

\* a backfill of all days for a meter number that is not registered has
\* ended with that error
C17_Witness ==
    \E d \in done :
        /\ d.call.op = "download"
        /\ d.call.start = Some(0)
        /\ d.call.end = MaxDay * MinutesPerDay
        /\ d.call.meter_no \notin meter_consumptions
        /\ d.error = ErrNoMeter
        /\ d.requested = <<>>
        /\ d.store = store

----------------------------------------------------------------------------
(* What the cost service is said to do *)

\* C18: a call of the cost service with the fields of its schema,
\* consumption and type, has a {cost} response when the type, in lower case,
\* contains "electric" or "water", the cost being the same for every type
\* that contains "electric" and the same consumption; for any other type it
\* fails with the error of the invalid utility type.
C18_CostMatchesTypeBySubstring ==
    \A c \in cost :
        DOMAIN c.data = {"consumption", "type"} =>
            IF Contains(Electric, lower(c.data.type))
            THEN /\ c.outcome.kind = "response"
                 /\ c.outcome.cost = calculate_cost(c.data.consumption, "Electricity")
            ELSE IF Contains(Water, lower(c.data.type))
            THEN c.outcome.kind = "response"
            ELSE c.outcome = [kind |-> "HomeAssistantError", message |-> ErrMeterType]

----------------------------------------------------------------------------
(* What the legacy sensor is said to do *)

StatesWithin(hist_states, from, to) ==
    LET Within(x) == from < x.dt /\ x.dt <= to
    IN  SelectSeq(hist_states, Within)

\* C20: for hist_states in ascending order of dt, the rows returned are one
\* for each hour that has a state after its beginning and not after its
\* end, so a state on the hour counts for the hour that ends there; the
\* row's state is the total of these states, its sum is the sum of latest
\* (0 without latest) plus the total of all states up to the end of its
\* hour, and the last row's sum is that baseline plus the total of all.
C20_HourBlocksCarryRunningSum ==
    \A c \in statistic :
        LET hs       == c.hist_states
            ret      == c.ret
            baseline == IF c.latest = None THEN 0 ELSE The(c.latest).sum
            blocks   == {b \in {t - MinutesPerHour : t \in StatisticTimes}
                               \cup StatisticTimes \cup {0} :
                            /\ b % MinutesPerHour = 0
                            /\ StatesWithin(hs, b, b + MinutesPerHour) # <<>>}
        IN  (\A i \in 1..(Len(hs) - 1) : hs[i].dt <= hs[i + 1].dt) =>
                /\ Len(ret) = Cardinality(blocks)
                /\ {ret[i].start : i \in 1..Len(ret)} = blocks
                /\ StartsAscend(ret)
                /\ \A i \in 1..Len(ret) :
                      /\ ret[i].state
                            = StateTotal(StatesWithin(hs, ret[i].start,
                                                      ret[i].start + MinutesPerHour))
                      /\ ret[i].sum
                            = baseline
                              + StateTotal(StatesWithin(hs, -1,
                                                        ret[i].start + MinutesPerHour))
                /\ ret # <<>> => ret[Len(ret)].sum = baseline + StateTotal(hs)

\* a call with a baseline and three states, one on the hour between two at
\* half hours, the first two with a consumption: two rows came back, the
\* state on the hour in the first
C20_Witness ==
    \E c \in statistic :
        /\ c.latest # None
        /\ The(c.latest).sum > 0
        /\ Len(c.hist_states) = 3
        /\ c.hist_states[1].dt = 30 /\ c.hist_states[1].state > 0
        /\ c.hist_states[2].dt = 60 /\ c.hist_states[2].state > 0
        /\ c.hist_states[3].dt = 90
        /\ Len(c.ret) = 2
        /\ c.ret[1].start = 0
        /\ c.ret[1].state = c.hist_states[1].state + c.hist_states[2].state

----------------------------------------------------------------------------
(* What a failing cycle, a backfill and a recompute are said to leave *)

\* C21: a cycle that fails has asked no meter for an update after the first
\* one whose update failed, has called get_hourly_consumptions for no meter
\* and has queried no statistics; of the coordinator's state it has changed
\* update_interval only: data, meter_consumptions and the store are as they
\* were.
C21_FailingCycleReadsNoHistory ==
    [][/\ (cycles' # cycles /\ result' = "UpdateFailed") =>
             /\ \A i \in 1..(Len(updated') - 1) : updated'[i]
             /\ error' = ErrStale =>
                   Len(updated') = NumMeters /\ updated'[NumMeters]
             /\ error' = ErrRetrieving => ~updated'[Len(updated')]
             /\ update_interval' = Some(RetryMinutes)
             /\ self_data' = self_data
             /\ meter_consumptions' = meter_consumptions
             /\ store' = store
             /\ phase' = phase
       /\ result' = "UpdateFailed" =>
             /\ pc' = "idle"
             /\ fetched' = None
             /\ queried' = {}
             /\ data' = <<>>
             /\ returned' = None]_vars

\* a cycle after a successful one has failed at the update of the first
\* meter and asked no meter after it
C21_Witness ==
    /\ refreshes >= 2
    /\ self_data # None
    /\ result = "UpdateFailed"
    /\ error = ErrRetrieving
    /\ Len(updated) = 1
    /\ Len(updated) < NumMeters
    /\ fetched = None

\* C22: a backfill that has ended has read back, in its recompute, every
\* row it had just handed to the import; and once the recorder has run every
\* import queued, each of those rows is persisted with a sum.
C22_BackfillReadsItsOwnImport ==
    \A d \in done :
        d.call.op = "download" =>
            /\ \A r \in SeqRange(d.historical_states) :
                   \E o \in SeqRange(d.old_statistics) : o.start = r.start
            /\ (svc = None /\ pending = <<>> /\ d.ended = <<cycles, result>>) =>
                   \A r \in SeqRange(d.historical_states) :
                       /\ r.start \in DOMAIN store[d.call.meter_no]
                       /\ "sum" \in DOMAIN store[d.call.meter_no][r.start]

\* C23: a backfill of a known meter whose first requested day the source
\* reported not found, its series without a row persisted or queued when it
\* began, ends without an error; and no backfill ends with the error "No
\* statistical data found".
C23_EmptyBackfillEndsWithoutError ==
    \A d \in done :
        (d.call.op = "download" /\ d.error # ErrNoMeter) =>
            /\ (/\ d.requested # <<>>
                /\ d.historical_states = <<>>
                /\ DOMAIN d.began.store[d.call.meter_no] = {}
                /\ d.began.pending = <<>>) => d.error = ""
            /\ d.error # ErrNoData

\* C24: a backfill's walk never ends in an error, whatever its bounds and
\* whatever the source answers: it has moved one day earlier for each day
\* found, and it is left for the import either at a day not found or with the
\* iteration date earlier than start_date.
C24_BackfillWalkEndsNormally ==
    \A w \in walk :
        /\ w.error = ""
        /\ w.pc # "raised"
        /\ w.iter_date = w.end_date - w.found * MinutesPerDay
        /\ w.pc = "import" =>
              \/ w.turns = w.found + 1
              \/ w.turns = w.found /\ w.iter_date < w.start_date

-----------------------------------------------------------------------------
(* What the first refresh and the payload are said to be *)

\* C26: while an entry is being set up, and so through the whole first
\* refresh of its coordinator, no sensor is registered; the first refresh
\* calls statistics_during_period for no meter and no row it emits or returns
\* has a sum.
C26_FirstRefreshHasNoSensors ==
    /\ phase = "setup" => (meter_consumptions = {} /\ refreshes <= 1)
    /\ refreshes = 0 => (result = "none" /\ returned = None)
    /\ refreshes = 1 =>
          /\ queried = {}
          /\ result # "TypeError"
          /\ fetched # None => ~The(fetched).sensor
          /\ \A m \in DOMAIN data : \A i \in 1..Len(data[m]) :
                 DOMAIN data[m][i] = {"start", "state"}
          /\ \A p \in returned : \A m \in DOMAIN p : \A i \in 1..Len(p[m]) :
                 DOMAIN p[m][i] = {"start", "state"}

\* the first refresh after a reload has returned rows, while the store holds
\* rows of the meters registered before the reload
C26_Witness ==
    /\ phase = "setup"
    /\ cycles = 3
    /\ refreshes = 1
    /\ result = "returned"
    /\ \E p \in returned : \E m \in DOMAIN p :
          /\ p[m] # <<>>
          /\ \E t \in DOMAIN store[m] : "sum" \in DOMAIN store[m][t]

\* C27: what a cycle returns, and what becomes coordinator.data, has one
\* entry for each meter of the account and no other, each a list of rows,
\* empty or not; a cycle that has not returned normally has returned nothing.
C27_PayloadHasOneEntryPerMeter ==
    /\ \A p \in returned \cup self_data :
          /\ DOMAIN p = Meters
          /\ \A m \in Meters : DOMAIN p[m] = 1..Len(p[m])
    /\ returned # None <=> result = "returned"

\* a cycle has returned an empty list for one meter and rows for another
C27_Witness ==
    /\ result = "returned"
    /\ \E p \in returned : \E m, n \in Meters : p[m] = <<>> /\ p[n] # <<>>

-----------------------------------------------------------------------------
(* What the legacy platform's entities are said to show *)

\* C28: the extra state attributes of each entity of the legacy platform
\* are the values the entity itself last read from its own meter, whatever
\* other entities have been constructed or updated since; and the latest
\* update was held back or not according to the last update the entity had
\* read from its meter.
C28_AttributesAreTheEntitysOwn ==
    \A u \in units :
        /\ \A k \in 1..Len(u.entities) :
              extra_state_attributes(u, u.entities[k]) = u.entities[k].wrote
        /\ \A c \in u.throttled :
              c.held_back = Throttled(c.at, c.own)

====
